---------------------------- MODULE Spec2Model ----------------------------
(***************************************************************************)
(* neuro_video_core: the hybrid (PyAV + OpenCV) decoder, its two backend   *)
(* decoders, and the AsyncFrameReader / VideoCore shutdown protocol.       *)
(*                                                                         *)
(* The native libraries (cv2.VideoCapture, the av container) are the       *)
(* environment: what they answer is drawn with \E in each action from the  *)
(* outcomes the decoders' own code and comments provide for.               *)
(***************************************************************************)
EXTENDS Integers, FiniteSets, Sequences, TLC

\* ------------------------------------------------------------------ bounds
\* Number of frames the video stream really holds (frames 0 .. NumFrames-1).
NumFrames == 2
\* Distance between two keyframes of the stream.
KeyInt == 2
\* Ceiling for OpenCVDecoder._current_frame_id under the manual "+= 1" path.
MaxCur == 3
\* Number of background threads one AsyncFrameReader may create in a run.
MaxTasks == 2
\* Number of frame objects the wrapped decoder hands to background loops.
MaxStamp == 3
\* Largest capacity a RingBuffer is constructed with.
MaxCap == 3
\* Number of pushes onto a buffer between two clear() / constructions.
MaxPush == 5
\* Number of distinct items pushed into a RingBuffer.
NumItems == 2

\* ------------------------------------------------------- environment values
\* Python's None for the optional integer fields.
NoneVal == -1
\* cap.get(CAP_PROP_POS_FRAMES) raising instead of answering.
RaisesVal == -2
\* stream.average_rate of the container, when it reports one.
PyavRate == 25
\* cap.get(CAP_PROP_FPS), when it reports one.
OcvFps == 30

VARIABLES
  \* OpenCVDecoder
  cap,            \* self._cap is not None
  capPos,         \* cv2's real cursor: index of the next frame cap.read() decodes
  capPosFrames,   \* what cap.get(CAP_PROP_POS_FRAMES) answers (RaisesVal: it raises)
  capFps,         \* what cap.get(CAP_PROP_FPS) answers (0: unknown)
  capCount,       \* what cap.get(CAP_PROP_FRAME_COUNT) answers (0: unknown)
  ocv_fps,        \* OpenCVDecoder._fps
  ocv_total,      \* OpenCVDecoder._total_frames
  ocv_cur,        \* OpenCVDecoder._current_frame_id
  \* PyAVDecoder
  container,      \* self._container is not None
  stream,         \* self._stream is not None
  streamRate,     \* stream.average_rate (0: None)
  streamFrames,   \* stream.frames (0: unknown)
  frame_iter,     \* self._frame_iter: NoneVal, or the index of the next decoded frame
  pyav_fps,       \* PyAVDecoder._fps
  pyav_total,     \* PyAVDecoder._total_frames
  pyav_cur,       \* PyAVDecoder._current_frame_id
  \* HybridDecoder
  h_fps,          \* HybridDecoder._fps
  h_total,        \* HybridDecoder._total_frames
  last_seek_by,   \* HybridDecoder._last_seek_by: "NONE", "OPENCV", "PYAV"
  session,        \* which backends the last open() opened ("NONE": closed since)
  sought,         \* a seek() has returned True since the last open()
  \* the last call of the single caller and what it returned
  op, retOk, retVal,
  pyav_ok, opencv_ok,   \* the locals of HybridDecoder.seek
  \* AsyncFrameReader
  running,        \* self._running
  thread,         \* self._thread: 0 is None, else the id of the thread object
  last_frame,     \* self._last_frame: 0 is None, else the stamp of a frame object
  pc,             \* per thread: where it is in _run
  frame,          \* per thread: the local `frame` of _run (0 is None)
  stamps,         \* number of frame objects handed to background loops so far
  callerPc,       \* where the caller is inside stop() / VideoCore.close()
  \* RingBuffer
  rb,             \* the buffer: its _capacity (0: no buffer), _data, _size, _start, _end
  pushed,         \* the items pushed since the buffer was constructed or cleared
  cleared,        \* clear() has been called since the buffer was constructed
  \* VideoCore
  config,         \* self._config: buffer_size, async_enabled, poll_delay
  poll_delay      \* AsyncFrameReader._poll_delay (NoneVal: no reader was built)

ocvVars == <<cap, capPos, capPosFrames, capFps, capCount, ocv_fps, ocv_total, ocv_cur>>
pyavVars == <<container, stream, streamRate, streamFrames, frame_iter,
              pyav_fps, pyav_total, pyav_cur>>
hybridVars == <<h_fps, h_total, last_seek_by, session, sought>>
callVars == <<op, retOk, retVal, pyav_ok, opencv_ok>>
asyncVars == <<running, thread, last_frame, pc, frame, stamps, callerPc>>
ringVars == <<rb, pushed, cleared>>
coreVars == <<config, poll_delay>>
vars == <<ocvVars, pyavVars, hybridVars, callVars, asyncVars, ringVars, coreVars>>

Max(a, b) == IF a >= b THEN a ELSE b
Min(a, b) == IF a <= b THEN a ELSE b

Tasks == 1..MaxTasks
\* Frame indices a caller asks for: below the stream, inside it, past its end.
SeekTargets == {-1, 1, NumFrames + 1}

\* ----------------------------------------------------------- BaseDecoder
\* clamp_frame_index: [0, total_frames-1] when total_frames is known, else >= 0.
clamp_frame_index(k, total) ==
  IF total # NoneVal /\ total > 0 THEN Max(0, Min(k, total - 1)) ELSE Max(0, k)

\* The fps and total_frames properties: the cached fields as they are, None
\* while unknown.
BaseDecoderFps(cached) == cached

BaseDecoderTotalFrames(cached) == cached

\* --------------------------------------------------------- the environment
\* The keyframe at or before frame k of the stream.
Keyframe(k) == (k \div KeyInt) * KeyInt

\* Where cap.set(CAP_PROP_POS_FRAMES, k) can leave cv2's cursor: on the frame,
\* on the keyframe before it, or where it was (the set was not honoured).
Landings(k) == {Min(k, NumFrames), Keyframe(Min(k, NumFrames)), capPos}

\* What cap.get(CAP_PROP_POS_FRAMES) can answer with the cursor at p: the
\* position, 0 in mid-stream, a negative value, or an exception.
PosReports(p) == {p, 0, -1, RaisesVal}

\* ============================================================== RingBuffer
\* A buffer is its five fields; _data is indexed from 0 as the Python list is.
\* VideoCore without a buffer (buffer_size = 0) holds none: capacity 0.
RingNone ==
  [capacity |-> 0, data |-> [i \in 0..(-1) |-> NoneVal],
   size |-> 0, start |-> 0, end |-> 0]

\* __init__(capacity), for capacity > 0.
RingBufferInit(capacity) ==
  [capacity |-> capacity, data |-> [i \in 0..(capacity - 1) |-> NoneVal],
   size |-> 0, start |-> 0, end |-> 0]

\* Mutant of RingPush: the size is counted up on every push.
RingPush_Grows(b, item) ==
  [b EXCEPT !.data = [b.data EXCEPT ![b.end] = item],
            !.size = b.size + 1,
            !.start = IF b.size < b.capacity THEN b.start
                      ELSE (b.start + 1) % b.capacity,
            !.end = (b.end + 1) % b.capacity]

\* push(item): the slot at _end is written; a full buffer moves _start on.
RingPush(b, item) ==
  [b EXCEPT !.data = [b.data EXCEPT ![b.end] = item],
            !.size = IF b.size < b.capacity THEN b.size + 1 ELSE b.size,
            !.start = IF b.size < b.capacity THEN b.start
                      ELSE (b.start + 1) % b.capacity,
            !.end = (b.end + 1) % b.capacity]

\* Mutant of RingGet: the logical index is taken as the physical one.
RingGet_Physical(b, frame_index) ==
  IF frame_index < 0 \/ frame_index >= b.size THEN NoneVal
  ELSE b.data[frame_index % b.capacity]

\* Mutant of RingGet: the upper bound is not tested.
RingGet_NoUpperBound(b, frame_index) ==
  IF frame_index < 0 THEN NoneVal
  ELSE b.data[(b.start + frame_index) % b.capacity]

\* get(frame_index): None outside 0 .. _size-1, else the slot _start + index.
RingGet(b, frame_index) ==
  IF frame_index < 0 \/ frame_index >= b.size THEN NoneVal
  ELSE b.data[(b.start + frame_index) % b.capacity]

\* Mutant of RingLast: the slot at _end, the next to be written.
RingLast_AtEnd(b) ==
  IF b.size = 0 THEN NoneVal ELSE b.data[b.end]

\* last(): None when empty, else the slot before _end.
RingLast(b) ==
  IF b.size = 0 THEN NoneVal
  ELSE b.data[(b.end - 1 + b.capacity) % b.capacity]

RingSize(b) == b.size

RingCapacity(b) == b.capacity

\* Mutant of RingClear: the slots and the size are reset, the cursors are not.
RingClear_KeepsCursors(b) ==
  [b EXCEPT !.data = [i \in 0..(b.capacity - 1) |-> NoneVal], !.size = 0]

\* clear(): fresh slots, size and both cursors back to 0.
RingClear(b) ==
  [b EXCEPT !.data = [i \in 0..(b.capacity - 1) |-> NoneVal],
            !.size = 0, !.start = 0, !.end = 0]

\* AsyncFrameReader.__init__ as VideoCore.__init__ calls it: with the decoder
\* only, so _poll_delay takes the default of the parameter.
AsyncFrameReaderPollDelay == 0

\* VideoCore.__init__: the configuration is kept, a RingBuffer is built for
\* buffer_size > 0 and an AsyncFrameReader when async_enabled is set.
VideoCoreInit(buffer_size, async_enabled, cfg_poll_delay) ==
  /\ config = [buffer_size |-> buffer_size, async_enabled |-> async_enabled,
               poll_delay |-> cfg_poll_delay]
  /\ rb = (IF buffer_size > 0 THEN RingBufferInit(buffer_size) ELSE RingNone)
  /\ pushed = <<>> /\ cleared = FALSE
  /\ poll_delay = (IF async_enabled THEN AsyncFrameReaderPollDelay ELSE NoneVal)

\* The decoders, the reader and the caller as constructed.
DecodersInit ==
  /\ cap = FALSE /\ capPos = 0 /\ capPosFrames = 0 /\ capFps = 0 /\ capCount = 0
  /\ ocv_fps = NoneVal /\ ocv_total = NoneVal /\ ocv_cur = 0
  /\ container = FALSE /\ stream = FALSE /\ streamRate = 0 /\ streamFrames = 0
  /\ frame_iter = NoneVal
  /\ pyav_fps = NoneVal /\ pyav_total = NoneVal /\ pyav_cur = 0
  /\ h_fps = NoneVal /\ h_total = NoneVal /\ last_seek_by = "NONE"
  /\ session = "NONE" /\ sought = FALSE
  /\ op = "init" /\ retOk = FALSE /\ retVal = NoneVal
  /\ pyav_ok = FALSE /\ opencv_ok = FALSE
  /\ running = FALSE /\ thread = 0 /\ last_frame = 0
  /\ pc = [t \in Tasks |-> "none"] /\ frame = [t \in Tasks |-> 0]
  /\ stamps = 0 /\ callerPc = "idle"

\* The decoders as constructed and, around the OpenCVDecoder, a VideoCore
\* built with VideoCoreConfig(async_enabled=True).
Init == DecodersInit /\ VideoCoreInit(0, TRUE, 0)

\* What a call leaves in the caller's hands.
Returns(name, ok, val) ==
  /\ op' = name /\ retOk' = ok /\ retVal' = val
  /\ pyav_ok' = FALSE /\ opencv_ok' = FALSE

\* ========================================================== OpenCVDecoder
\* open(): isOpened is cap.isOpened(); fps and count are what the new capture
\* reports for CAP_PROP_FPS and CAP_PROP_FRAME_COUNT.
OpenCVOpen(isOpened, fps, count) ==
  IF ~isOpened
  THEN /\ cap' = FALSE /\ capPos' = 0 /\ capPosFrames' = 0
       /\ capFps' = 0 /\ capCount' = 0
       /\ UNCHANGED <<ocv_fps, ocv_total, ocv_cur>>
  ELSE /\ cap' = TRUE /\ capPos' = 0 /\ capPosFrames' = 0
       /\ capFps' = fps /\ capCount' = count
       /\ ocv_fps' = (IF fps > 0 THEN fps ELSE NoneVal)
       /\ ocv_total' = (IF count > 0 THEN count ELSE NoneVal)
       /\ UNCHANGED ocv_cur

\* close(): releaseRaises is cap.release() raising, which leaves close() before
\* the fields are reset.
OpenCVCloseRaises(releaseRaises) == cap /\ releaseRaises

OpenCVClose(releaseRaises) ==
  IF OpenCVCloseRaises(releaseRaises)
  THEN UNCHANGED ocvVars
  ELSE /\ cap' = FALSE /\ capPos' = 0 /\ capPosFrames' = 0
       /\ capFps' = 0 /\ capCount' = 0
       /\ ocv_cur' = 0
       /\ UNCHANGED <<ocv_fps, ocv_total>>

OpenCVGetFps == IF ~cap THEN 0 ELSE IF capFps > 0 THEN capFps ELSE 0

OpenCVGetTotalFrames == IF ~cap THEN 0 ELSE IF capCount > 0 THEN capCount ELSE 0

\* seek(k): the cursor lands on p and POS_FRAMES then answers r.
OpenCVSeekTarget(k) == clamp_frame_index(k, ocv_total)

OpenCVSeekOk(k, r) == cap /\ r # RaisesVal /\ r = OpenCVSeekTarget(k)

OpenCVSeek(p, r) ==
  IF ~cap
  THEN UNCHANGED ocvVars
  ELSE /\ capPos' = p /\ capPosFrames' = r
       /\ UNCHANGED <<cap, capFps, capCount, ocv_fps, ocv_total, ocv_cur>>

\* cur_frame_id(): its result, and its write to _current_frame_id.
OpenCVCurFrameIdRet ==
  IF ~cap THEN ocv_cur
  ELSE IF capPosFrames = RaisesVal THEN ocv_cur
  ELSE IF capPosFrames < 0 THEN 0
  ELSE capPosFrames

OpenCVCurFrameId ==
  /\ ocv_cur' = OpenCVCurFrameIdRet
  /\ UNCHANGED <<cap, capPos, capPosFrames, capFps, capCount, ocv_fps, ocv_total>>

\* read(): success is cap.read()'s flag, r what POS_FRAMES answers afterwards.
OpenCVReadOk(success) == cap /\ success /\ capPos < NumFrames

OpenCVReadFrame(success) == IF OpenCVReadOk(success) THEN capPos ELSE NoneVal

OpenCVReadCur(r) == IF r # RaisesVal /\ r >= 0 THEN r ELSE ocv_cur + 1

OpenCVRead(success, r) ==
  IF ~OpenCVReadOk(success)
  THEN UNCHANGED ocvVars
  ELSE /\ capPos' = capPos + 1 /\ capPosFrames' = r
       /\ ocv_cur' = OpenCVReadCur(r)
       /\ UNCHANGED <<cap, capFps, capCount, ocv_fps, ocv_total>>

\* The answers POS_FRAMES may give after a read that moved the cursor to p;
\* the manual "+= 1" path is cut off at MaxCur.
ReadReports(p) == {r \in PosReports(p) : r >= 0 \/ ocv_cur < MaxCur}

\* ============================================================ PyAVDecoder
\* open(): opened is av.open() not raising, hasVideo is streams.video[0] not
\* raising; rate and frames are what the stream reports.
PyAVOpenOk(opened, hasVideo) == opened /\ hasVideo

PyAVOpen(opened, hasVideo, rate, frames) ==
  IF ~opened
  THEN UNCHANGED pyavVars
  ELSE IF ~hasVideo
  THEN /\ container' = TRUE
       /\ UNCHANGED <<stream, streamRate, streamFrames, frame_iter,
                      pyav_fps, pyav_total, pyav_cur>>
  ELSE /\ container' = TRUE /\ stream' = TRUE
       /\ streamRate' = rate /\ streamFrames' = frames
       /\ pyav_fps' = (IF rate # 0 THEN rate ELSE NoneVal)
       /\ pyav_total' = (IF frames > 0 THEN frames ELSE NoneVal)
       /\ frame_iter' = 0
       /\ UNCHANGED pyav_cur

\* Mutant of PyAVClose: the frame counter survives the close.
PyAVClose_KeepsCounter ==
  /\ container' = FALSE /\ stream' = FALSE /\ streamRate' = 0 /\ streamFrames' = 0
  /\ frame_iter' = NoneVal
  /\ UNCHANGED <<pyav_fps, pyav_total, pyav_cur>>

PyAVClose ==
  /\ container' = FALSE /\ stream' = FALSE /\ streamRate' = 0 /\ streamFrames' = 0
  /\ frame_iter' = NoneVal /\ pyav_cur' = 0
  /\ UNCHANGED <<pyav_fps, pyav_total>>

PyAVGetFps == IF ~stream THEN 0 ELSE streamRate

PyAVGetTotalFrames == IF ~stream THEN 0 ELSE IF streamFrames > 0 THEN streamFrames ELSE 0

PyAVSeekTarget(k) == clamp_frame_index(k, pyav_total)

\* _frame_to_pts answers None without a positive fps.
PyAVHasPts == pyav_fps # NoneVal /\ pyav_fps > 0

\* seek(k): seekRaises is container.seek() raising.
PyAVSeekOk(seekRaises) == container /\ stream /\ PyAVHasPts /\ ~seekRaises

PyAVSeek(k, seekRaises) ==
  IF ~PyAVSeekOk(seekRaises)
  THEN UNCHANGED pyavVars
  ELSE /\ frame_iter' = Keyframe(Min(PyAVSeekTarget(k), NumFrames))
       /\ pyav_cur' = PyAVSeekTarget(k)
       /\ UNCHANGED <<container, stream, streamRate, streamFrames, pyav_fps, pyav_total>>

PyAVCurFrameId == pyav_cur


\* =========================================================== HybridDecoder
\* What av.open() and the stream may answer at open(): the container does not
\* open, it holds no video stream, or it opens with a rate (0: none) and a
\* frame count (0: unknown).
PyAVOpenings ==
  {<<FALSE, FALSE, 0, 0>>, <<TRUE, FALSE, 0, 0>>}
    \cup {<<TRUE, TRUE, rate, frames>> : rate \in {0, PyavRate}, frames \in {0, NumFrames}}

\* What cv2.VideoCapture may answer at open(): not opened, or opened with its
\* fps and a frame count (0: unknown).
OpenCVOpenings ==
  {<<FALSE, 0, 0>>} \cup {<<TRUE, OcvFps, count>> : count \in {0, NumFrames}}

\* Mutant of HybridOpenOk: open() succeeds only with both backends.
HybridOpenOk_Both(ok_pyav, ok_opencv) == ok_pyav /\ ok_opencv

\* open(): both backends are opened, PyAV first; metadata from PyAV when it opened.
HybridOpenOk(ok_pyav, ok_opencv) == ok_pyav \/ ok_opencv

HybridOpen(opened, hasVideo, rate, frames, isOpened, fps, count) ==
  LET ok_pyav == PyAVOpenOk(opened, hasVideo)
      ok_opencv == isOpened
  IN /\ PyAVOpen(opened, hasVideo, rate, frames)
     /\ OpenCVOpen(isOpened, fps, count)
     /\ IF ~HybridOpenOk(ok_pyav, ok_opencv)
        THEN UNCHANGED <<h_fps, h_total>>
        ELSE IF ok_pyav
        THEN /\ h_fps' = BaseDecoderFps(pyav_fps')
             /\ h_total' = BaseDecoderTotalFrames(pyav_total')
        ELSE /\ h_fps' = BaseDecoderFps(ocv_fps')
             /\ h_total' = BaseDecoderTotalFrames(ocv_total')
     /\ session' = (IF ok_pyav /\ ok_opencv THEN "BOTH"
                    ELSE IF ok_pyav THEN "PYAV"
                    ELSE IF ok_opencv THEN "OPENCV" ELSE "FAILED")
     /\ op' = "open" /\ retOk' = HybridOpenOk(ok_pyav, ok_opencv)
     /\ retVal' = NoneVal
     /\ pyav_ok' = ok_pyav /\ opencv_ok' = ok_opencv
     /\ sought' = FALSE
     /\ UNCHANGED <<last_seek_by, asyncVars, ringVars, coreVars>>

\* Mutant of HybridClose: without the finally, a raising OpenCV close ends
\* close() before PyAV is closed.
HybridClose_NoFinally(releaseRaises) ==
  /\ OpenCVClose(releaseRaises)
  /\ IF OpenCVCloseRaises(releaseRaises) THEN UNCHANGED pyavVars ELSE PyAVClose
  /\ Returns("close", FALSE,
             IF OpenCVCloseRaises(releaseRaises) THEN RaisesVal ELSE NoneVal)
  /\ session' = "NONE"
  /\ UNCHANGED <<h_fps, h_total, last_seek_by, sought, asyncVars, ringVars, coreVars>>

\* close(): OpenCV's close, and PyAV's in the finally; what OpenCV's close
\* raised leaves close() after that.
HybridClose(releaseRaises) ==
  /\ OpenCVClose(releaseRaises) /\ PyAVClose
  /\ Returns("close", FALSE,
             IF OpenCVCloseRaises(releaseRaises) THEN RaisesVal ELSE NoneVal)
  /\ session' = "NONE"
  /\ UNCHANGED <<h_fps, h_total, last_seek_by, sought, asyncVars, ringVars, coreVars>>

\* get_fps(): the cached value, else PyAV's, else OpenCV's, cached on the way out.
HybridGetFpsRet ==
  IF h_fps # NoneVal THEN h_fps
  ELSE IF PyAVGetFps > 0 THEN PyAVGetFps ELSE OpenCVGetFps

HybridGetFps ==
  /\ h_fps' = HybridGetFpsRet
  /\ Returns("get_fps", FALSE, HybridGetFpsRet)
  /\ UNCHANGED <<ocvVars, pyavVars, h_total, last_seek_by, session, sought, asyncVars, ringVars, coreVars>>

HybridGetTotalFramesRet ==
  IF h_total # NoneVal THEN h_total
  ELSE IF PyAVGetTotalFrames > 0 THEN PyAVGetTotalFrames ELSE OpenCVGetTotalFrames

HybridGetTotalFrames ==
  /\ h_total' = HybridGetTotalFramesRet
  /\ Returns("get_total_frames", FALSE, HybridGetTotalFramesRet)
  /\ UNCHANGED <<ocvVars, pyavVars, h_fps, last_seek_by, session, sought, asyncVars, ringVars, coreVars>>

\* Mutant of HybridSeekAuthority: the backend that was asked last takes the
\* authority, so an accepted forwarded seek overrides PyAV.
HybridSeekAuthority_LastAsked(pyavOk, opencvOk) ==
  IF opencvOk THEN "OPENCV" ELSE IF pyavOk THEN "PYAV" ELSE last_seek_by

\* Mutant of HybridSeekAuthority: a seek that both backends reject forgets the
\* authority.
HybridSeekAuthority_ResetOnFailure(pyavOk, opencvOk) ==
  IF pyavOk THEN "PYAV" ELSE IF opencvOk THEN "OPENCV" ELSE "NONE"

\* seek(): who holds the authority afterwards, and what seek returns.
HybridSeekAuthority(pyavOk, opencvOk) ==
  IF pyavOk THEN "PYAV" ELSE IF opencvOk THEN "OPENCV" ELSE last_seek_by

HybridSeekResult(pyavOk, opencvOk) == pyavOk \/ opencvOk

\* seek(k): PyAV is asked first; OpenCV is asked once on either path (to follow
\* PyAV, or in its place), its cursor landing on p and reporting r.
HybridSeek(k, seekRaises, p, r) ==
  LET frame_index == clamp_frame_index(k, h_total)
      pyavOk == PyAVSeekOk(seekRaises)
      opencvOk == OpenCVSeekOk(frame_index, r)
  IN /\ PyAVSeek(frame_index, seekRaises)
     /\ OpenCVSeek(p, r)
     /\ last_seek_by' = HybridSeekAuthority(pyavOk, opencvOk)
     /\ op' = "seek" /\ retOk' = HybridSeekResult(pyavOk, opencvOk)
     /\ retVal' = NoneVal
     /\ pyav_ok' = pyavOk /\ opencv_ok' = (~pyavOk /\ opencvOk)
     /\ sought' = (sought \/ HybridSeekResult(pyavOk, opencvOk))
     /\ UNCHANGED <<h_fps, h_total, session, asyncVars, ringVars, coreVars>>

\* Mutant of HybridCurFrameIdRet: any recorded seek sends the query to PyAV.
HybridCurFrameIdRet_AlwaysPyAV ==
  IF last_seek_by # "NONE" THEN PyAVCurFrameId
  ELSE IF OpenCVCurFrameIdRet >= 0 THEN OpenCVCurFrameIdRet ELSE PyAVCurFrameId

\* cur_frame_id(): the backend of the last successful seek answers; with no seek
\* yet, OpenCV's answer when it is non-negative, else PyAV's.
HybridCurFrameIdRet ==
  IF last_seek_by = "PYAV" THEN PyAVCurFrameId
  ELSE IF last_seek_by = "OPENCV" THEN OpenCVCurFrameIdRet
  ELSE IF OpenCVCurFrameIdRet >= 0 THEN OpenCVCurFrameIdRet ELSE PyAVCurFrameId

HybridCurFrameId ==
  /\ IF last_seek_by = "PYAV" THEN UNCHANGED ocvVars ELSE OpenCVCurFrameId
  /\ Returns("cur_frame_id", FALSE, HybridCurFrameIdRet)
  /\ UNCHANGED <<pyavVars, hybridVars, asyncVars, ringVars, coreVars>>

\* Mutant of HybridRead: a delivered frame is counted on PyAV's side too.
HybridRead_AlsoPyAV(success, r) ==
  /\ OpenCVRead(success, r)
  /\ Returns("read", OpenCVReadOk(success), OpenCVReadFrame(success))
  /\ pyav_cur' = (IF OpenCVReadOk(success) /\ pyav_cur < MaxCur
                  THEN pyav_cur + 1 ELSE pyav_cur)
  /\ UNCHANGED <<container, stream, streamRate, streamFrames, frame_iter,
                 pyav_fps, pyav_total>>
  /\ UNCHANGED <<hybridVars, asyncVars, ringVars, coreVars>>

\* read(): OpenCV's read, nothing else.
HybridRead(success, r) ==
  /\ OpenCVRead(success, r)
  /\ Returns("read", OpenCVReadOk(success), OpenCVReadFrame(success))
  /\ UNCHANGED <<pyavVars, hybridVars, asyncVars, ringVars, coreVars>>

\* ------------------------------------------- a HybridDecoder and its caller
Open ==
  \E a \in PyAVOpenings, c \in OpenCVOpenings :
    HybridOpen(a[1], a[2], a[3], a[4], c[1], c[2], c[3])

Close ==
  \E releaseRaises \in BOOLEAN :
    /\ ~cap => ~releaseRaises
    /\ HybridClose(releaseRaises)

GetFps == HybridGetFps

GetTotalFrames == HybridGetTotalFrames

Seek ==
  \E k \in SeekTargets, seekRaises \in BOOLEAN :
    \E p \in Landings(OpenCVSeekTarget(clamp_frame_index(k, h_total))) :
      \E r \in PosReports(p) :
        \* an answer of a backend that is not open changes nothing
        /\ (~cap => p = capPos /\ r = capPosFrames)
        /\ (~(container /\ stream /\ PyAVHasPts) => ~seekRaises)
        /\ HybridSeek(k, seekRaises, p, r)

CurFrameId == HybridCurFrameId

Read ==
  \E success \in BOOLEAN :
    \E r \in ReadReports(capPos + 1) : HybridRead(success, r)

Next == Open \/ Close \/ GetFps \/ GetTotalFrames \/ Seek \/ CurFrameId \/ Read

Spec == Init /\ [][Next]_vars


\* ================================================ HybridDecoder: the claims
\* The step is a seek() that PyAV rejected and OpenCV then rejected too.
BothRejected == op' = "seek" /\ ~pyav_ok' /\ ~opencv_ok'

\* C1: a seek(k) that both backends reject returns false, leaves
\* last_seek_by as it was, and cur_frame_id() answers after the call what it
\* answered before it.
C1_RejectedSeekKeepsPosition ==
  [][BothRejected =>
       /\ retOk' = FALSE
       /\ last_seek_by' = last_seek_by
       /\ HybridCurFrameIdRet' = HybridCurFrameIdRet]_vars

\* C2: a seek(k) that PyAV accepts returns true and gives PyAV the authority,
\* whatever became of the seek forwarded to OpenCV, and cur_frame_id() right
\* after it is PyAV's cur_frame_id().
C2_TimelineSeekTakesAuthority ==
  [][(op' = "seek" /\ pyav_ok') =>
       /\ retOk' = TRUE
       /\ last_seek_by' = "PYAV"
       /\ HybridCurFrameIdRet' = PyAVCurFrameId']_vars

\* C2 witness: PyAV accepted a seek while OpenCV, open, reports another position.
C2_Witness ==
  /\ op = "seek" /\ pyav_ok /\ retOk
  /\ cap /\ OpenCVCurFrameIdRet # PyAVCurFrameId

\* C3: a seek(k) that PyAV rejects and OpenCV accepts returns true and gives
\* OpenCV the authority; the authority stays with OpenCV until the next
\* successful seek, and every cur_frame_id() meanwhile returns OpenCV's.
C3_FastSeekTakesAuthority ==
  [][/\ (op' = "seek" /\ ~pyav_ok' /\ opencv_ok') =>
          (retOk' = TRUE /\ last_seek_by' = "OPENCV")
     /\ (last_seek_by = "OPENCV" /\ ~(op' = "seek" /\ retOk')) =>
          last_seek_by' = "OPENCV"
     /\ (last_seek_by = "OPENCV" /\ op' = "cur_frame_id") =>
          (retVal' = OpenCVCurFrameIdRet /\ retVal' = ocv_cur')]_vars

\* C3 witness: PyAV, open, rejected the seek and OpenCV accepted it; the two
\* backends stand on different frames.
C3_Witness ==
  /\ op = "seek" /\ ~pyav_ok /\ opencv_ok /\ retOk
  /\ container /\ stream
  /\ last_seek_by = "OPENCV" /\ OpenCVCurFrameIdRet # PyAVCurFrameId

\* C4: last_seek_by changes only in a seek() that returns true.
C4_AuthorityChangesOnlyInSuccessfulSeek ==
  [][last_seek_by' # last_seek_by => (op' = "seek" /\ retOk' = TRUE)]_vars

\* C4 witness: a seek has failed with the authority already given to PyAV.
C4_Witness ==
  /\ op = "seek" /\ ~retOk
  /\ cap /\ container /\ stream /\ last_seek_by = "PYAV"

\* cv2 answers CAP_PROP_POS_FRAMES with its real cursor.
AccurateReports == capPosFrames = capPos

\* C5: once a seek has succeeded, every read() that returns a frame advances
\* cur_frame_id() by exactly one (so n reads after the seek advance it by n),
\* under every value of last_seek_by, and a read() that returns empty leaves
\* it where it was.  The claim is stated for the reads around which cv2
\* reports its position accurately: it is refuted even there.
C5_ReadAdvancesByOne ==
  [][(op' = "read" /\ AccurateReports /\ AccurateReports') =>
       IF retOk'
       THEN last_seek_by # "NONE" =>
              HybridCurFrameIdRet' = HybridCurFrameIdRet + 1
       ELSE HybridCurFrameIdRet' = HybridCurFrameIdRet]_vars


\* ============================================= AsyncFrameReader, VideoCore
\* A VideoCore built with async_enabled over the default decoder, an
\* OpenCVDecoder.  The caller is one thread; between its steps the reader's
\* background threads take theirs.

\* threading.Thread.is_alive()
Alive(t) == pc[t] \notin {"none", "dead"}

\* The thread sits inside cap.read(), the native call of decoder.read(), which
\* has no timeout of its own.
InRead(t) == pc[t] = "reading"

\* Mutant of JoinReturns: join() without its timeout.
JoinReturns_NoTimeout(t) == ~Alive(t)

\* stop(), lines 38-39: join(timeout=1.0) is skipped without a live thread,
\* returns when the thread has ended, and gives up on a thread that is still
\* inside cap.read() when the second is over.
JoinReturns(t) == ~Alive(t) \/ InRead(t)

\* VideoCore.open(): decoder.open(); a false result is raised as VideoOpenError.
VcOpen ==
  /\ callerPc = "idle"
  /\ \E c \in OpenCVOpenings :
       /\ OpenCVOpen(c[1], c[2], c[3])
       /\ Returns("open", c[1], NoneVal)
  /\ UNCHANGED <<pyavVars, hybridVars, ringVars, asyncVars, coreVars>>

\* start(): nothing while running; else the flag is set and a thread started.
FreshThread == CHOOSE t \in Tasks : pc[t] = "none" /\ \A u \in Tasks : u < t => pc[u] # "none"

AsyncStart ==
  IF running
  THEN UNCHANGED asyncVars
  ELSE /\ running' = TRUE
       /\ thread' = FreshThread
       /\ pc' = [pc EXCEPT ![FreshThread] = "check"]
       /\ UNCHANGED <<last_frame, frame, stamps, callerPc>>

VcStartAsync ==
  /\ callerPc = "idle"
  /\ running \/ \E t \in Tasks : pc[t] = "none"
  /\ AsyncStart
  /\ Returns("start", FALSE, NoneVal)
  /\ UNCHANGED <<ocvVars, pyavVars, hybridVars, ringVars, coreVars>>

\* stop(), line 36: the flag is cleared; the caller goes on to the join.
AsyncStopBegin(next) ==
  /\ running' = FALSE
  /\ callerPc' = next
  /\ UNCHANGED <<thread, last_frame, pc, frame, stamps>>

VcStopAsync ==
  /\ callerPc = "idle"
  /\ AsyncStopBegin("stop_join")
  /\ Returns("stop_async", FALSE, NoneVal)
  /\ UNCHANGED <<ocvVars, pyavVars, hybridVars, ringVars, coreVars>>

\* VideoCore.close(), lines 61-62: the reader is stopped first.
VcCloseBegin ==
  /\ callerPc = "idle"
  /\ IF config.async_enabled
     THEN AsyncStopBegin("close_join")
     ELSE /\ callerPc' = "close_decoder"
          /\ UNCHANGED <<running, thread, last_frame, pc, frame, stamps>>
  /\ Returns("close", FALSE, NoneVal)
  /\ UNCHANGED <<ocvVars, pyavVars, hybridVars, ringVars, coreVars>>

\* stop(), lines 38-41: the join is over, the handle is dropped, stop() returns.
AsyncStopJoin ==
  /\ callerPc \in {"stop_join", "close_join"}
  /\ thread # 0 => JoinReturns(thread)
  /\ thread' = 0
  /\ callerPc' = (IF callerPc = "stop_join" THEN "idle" ELSE "close_decoder")
  /\ UNCHANGED <<running, last_frame, pc, frame, stamps>>
  /\ UNCHANGED <<ocvVars, pyavVars, hybridVars, ringVars, callVars, coreVars>>

\* VideoCore.close(), line 63: decoder.close().
VcCloseDecoder ==
  /\ callerPc = "close_decoder"
  /\ \E releaseRaises \in BOOLEAN :
       /\ ~cap => ~releaseRaises
       /\ OpenCVClose(releaseRaises)
  /\ callerPc' = "idle"
  /\ UNCHANGED <<running, thread, last_frame, pc, frame, stamps>>
  /\ UNCHANGED <<pyavVars, hybridVars, ringVars, callVars, coreVars>>

\* get_last(), through VideoCore.get_last_async_frame().
VcGetLastAsyncFrame ==
  /\ callerPc = "idle"
  /\ Returns("get_last", last_frame # 0, last_frame)
  /\ UNCHANGED <<ocvVars, pyavVars, hybridVars, ringVars, asyncVars, coreVars>>

\* Mutant of TaskCheck: the loop goes on without testing the flag.
TaskCheck_IgnoresFlag(t) ==
  /\ pc[t] = "check"
  /\ pc' = [pc EXCEPT ![t] = "call"]
  /\ UNCHANGED <<running, thread, last_frame, frame, stamps, callerPc>>
  /\ UNCHANGED <<ocvVars, pyavVars, hybridVars, ringVars, callVars, coreVars>>

\* _run, line 45: the flag is tested once per iteration.
TaskCheck(t) ==
  /\ pc[t] = "check"
  /\ pc' = [pc EXCEPT ![t] = IF running THEN "call" ELSE "exit"]
  /\ UNCHANGED <<running, thread, last_frame, frame, stamps, callerPc>>
  /\ UNCHANGED <<ocvVars, pyavVars, hybridVars, ringVars, callVars, coreVars>>

\* _run, line 47, into OpenCVDecoder.read(), lines 214-217: without a capture
\* read() returns None at once; with one it enters cap.read().
TaskCall(t) ==
  /\ pc[t] = "call"
  /\ pc' = [pc EXCEPT ![t] = IF cap THEN "reading" ELSE "got"]
  /\ frame' = [frame EXCEPT ![t] = 0]
  /\ UNCHANGED <<running, thread, last_frame, stamps, callerPc>>
  /\ UNCHANGED <<ocvVars, pyavVars, hybridVars, ringVars, callVars, coreVars>>

\* _run, lines 46-50, out of OpenCVDecoder.read(), lines 217-236: cap.read()
\* is over; decoder.read() returns a frame or None, or raises, which the loop
\* takes as None.  Every frame returned is a new object: its stamp.  A capture
\* released meanwhile gives no frame.  (The position cv2 reports after the
\* read is taken as accurate here: the reader never asks for it.)
TaskRead(t) ==
  /\ pc[t] = "reading"
  /\ \E raises \in BOOLEAN, success \in BOOLEAN :
       /\ raises => ~success
       /\ success => stamps < MaxStamp
       /\ OpenCVRead(success, capPos + 1)
       /\ IF OpenCVReadOk(success)
          THEN frame' = [frame EXCEPT ![t] = stamps + 1] /\ stamps' = stamps + 1
          ELSE frame' = [frame EXCEPT ![t] = 0] /\ UNCHANGED stamps
  /\ pc' = [pc EXCEPT ![t] = "got"]
  /\ UNCHANGED <<running, thread, last_frame, callerPc>>
  /\ UNCHANGED <<pyavVars, hybridVars, ringVars, callVars, coreVars>>

\* Mutant of TaskPublish: a frame in hand is dropped and the loop goes on.
TaskPublish_DropsFrame(t) ==
  /\ pc[t] = "got"
  /\ pc' = [pc EXCEPT ![t] = IF frame[t] = 0 THEN "exit" ELSE "check"]
  /\ frame' = [frame EXCEPT ![t] = 0]
  /\ UNCHANGED <<running, thread, last_frame, stamps, callerPc>>
  /\ UNCHANGED <<ocvVars, pyavVars, hybridVars, ringVars, callVars, coreVars>>

\* _run, lines 52-59: None ends the loop; a frame is published.  poll_delay is
\* 0, as VideoCore builds the reader, so the loop goes straight on.
TaskPublish(t) ==
  /\ pc[t] = "got"
  /\ IF frame[t] = 0
     THEN /\ pc' = [pc EXCEPT ![t] = "exit"]
          /\ UNCHANGED <<last_frame, frame>>
     ELSE /\ last_frame' = frame[t]
          /\ frame' = [frame EXCEPT ![t] = 0]
          /\ pc' = [pc EXCEPT ![t] = "check"]
  /\ UNCHANGED <<running, thread, stamps, callerPc>>
  /\ UNCHANGED <<ocvVars, pyavVars, hybridVars, ringVars, callVars, coreVars>>

\* Mutant of TaskExit: the thread ends without clearing the flag, as it would
\* if the exception of decoder.read() left _run.
TaskExit_LeavesFlag(t) ==
  /\ pc[t] = "exit"
  /\ pc' = [pc EXCEPT ![t] = "dead"]
  /\ UNCHANGED <<running, thread, last_frame, frame, stamps, callerPc>>
  /\ UNCHANGED <<ocvVars, pyavVars, hybridVars, ringVars, callVars, coreVars>>

\* _run, line 61: the loop is over, the flag is cleared, the thread ends.
TaskExit(t) ==
  /\ pc[t] = "exit"
  /\ running' = FALSE
  /\ pc' = [pc EXCEPT ![t] = "dead"]
  /\ UNCHANGED <<thread, last_frame, frame, stamps, callerPc>>
  /\ UNCHANGED <<ocvVars, pyavVars, hybridVars, ringVars, callVars, coreVars>>

TaskStep ==
  \E t \in Tasks :
    TaskCheck(t) \/ TaskCall(t) \/ TaskRead(t) \/ TaskPublish(t) \/ TaskExit(t)

NextAsync ==
  \/ VcOpen \/ VcStartAsync \/ VcStopAsync \/ VcCloseBegin
  \/ AsyncStopJoin \/ VcCloseDecoder \/ VcGetLastAsyncFrame
  \/ TaskStep

SpecAsync == Init /\ [][NextAsync]_vars

\* Python runs every thread that can run, and join()'s timeout expires; only
\* cap.read() may never return.
FairAsync ==
  /\ SpecAsync
  /\ WF_vars(AsyncStopJoin)
  /\ \A t \in Tasks :
       WF_vars(TaskCheck(t) \/ TaskCall(t) \/ TaskPublish(t) \/ TaskExit(t))


\* ================================================= AsyncFrameReader: claims
LiveTasks == {t \in Tasks : Alive(t)}

InJoin == callerPc \in {"stop_join", "close_join"}

\* stop() has returned and start() has not been called since: only start()
\* sets the thread handle and only the end of stop() clears it.
Stopped == thread = 0

\* C6: after stop() has returned, and until a later start(), nothing writes
\* last_frame, so every get_last() returns the same value.
C6_NoWriteAfterStop ==
  [][Stopped => last_frame' = last_frame]_vars

\* C7: at most one background thread is alive at any time, so no two loops are
\* inside decoder.read() together; start() while running and stop() while
\* stopped change nothing of the reader.
C7_AtMostOneTask ==
  /\ [](Cardinality(LiveTasks) <= 1)
  /\ [][/\ (VcStartAsync /\ running) => UNCHANGED asyncVars
        /\ (VcStopAsync /\ ~running /\ thread = 0) =>
             UNCHANGED <<running, thread, last_frame, pc, frame>>]_vars

\* C8: VideoCore.close() closes the decoder only once no background thread is
\* alive any more.
C8_CloseAfterTaskEnded ==
  [][VcCloseDecoder => LiveTasks = {}]_vars

\* C9: stop() always returns, also with the thread blocked inside
\* decoder.read() for ever; when it returns, running is false and the thread
\* handle is dropped.
C9_StopReturns ==
  /\ InJoin ~> ~InJoin
  /\ [][(InJoin /\ ~InJoin') => (running' = FALSE /\ thread' = 0)]_vars

\* C9 witness: stop() has returned while the thread it gave up on is still
\* inside decoder.read().
C9_Witness ==
  /\ op = "stop_async" /\ callerPc = "idle"
  /\ thread = 0 /\ ~running
  /\ \E t \in Tasks : InRead(t)

\* C10: get_last() returns empty until a frame has been published, and
\* otherwise the published frame; a publication replaces the slot's frame by
\* one the decoder returned later, never by an older one.
C10_LatestWins ==
  [][/\ VcGetLastAsyncFrame => (retVal' = last_frame /\ retOk' = (stamps > 0 /\ last_frame # 0))
     /\ last_frame' # last_frame => last_frame' > last_frame]_vars

\* The loop of some thread holds frame s, which decoder.read() just returned.
FrameInHand(s) == \E t \in Tasks : pc[t] = "got" /\ frame[t] = s

\* C11: under fair scheduling of the background thread, every frame the
\* decoder returns to the loop is eventually published (last_frame becomes
\* that frame); the published frame stays until a frame the decoder returned
\* is published over it, and get_last() returns the published frame.
C11_FrameEventuallyPublished ==
  /\ \A s \in 1..MaxStamp : FrameInHand(s) ~> (last_frame = s)
  /\ [][last_frame' # last_frame =>
          (last_frame' # 0 /\ FrameInHand(last_frame'))]_vars
  /\ [][VcGetLastAsyncFrame => (retOk' = (last_frame # 0) /\ retVal' = last_frame)]_vars

\* C11 witness: with one thread running and never stopped over, get_last()
\* has returned the second frame or a later one.
C11_Witness ==
  /\ op = "get_last" /\ retOk /\ retVal = last_frame /\ last_frame >= 2
  /\ running /\ thread # 0 /\ LiveTasks = {thread}

\* decoder.read() has returned None to the loop of thread t, or raised.
LoopGotNothing(t) == pc[t] = "got" /\ frame[t] = 0

\* C12: when decoder.read() returns None or raises, the loop ends without
\* writing last_frame and the thread ends having cleared the running flag,
\* and a start() that finds the flag cleared starts a new thread.
C12_EmptyReadEndsLoop ==
  /\ \A t \in Tasks : LoopGotNothing(t) ~> (pc[t] = "dead")
  /\ [][\A t \in Tasks :
          /\ (LoopGotNothing(t) /\ pc'[t] # pc[t]) =>
               (pc'[t] = "exit" /\ last_frame' = last_frame)
          /\ (pc[t] = "exit" /\ pc'[t] # pc[t]) =>
               (pc'[t] = "dead" /\ running' = FALSE /\ last_frame' = last_frame)]_vars
  /\ [][(VcStartAsync /\ ~running) =>
          /\ running' /\ thread' # 0 /\ thread' # thread
          /\ pc[thread'] = "none" /\ pc'[thread'] = "check"]_vars

\* C12 witness: the current thread has published a frame, then got nothing
\* from the opened decoder and left the loop; the flag is still set.
C12_Witness ==
  /\ thread # 0 /\ running /\ pc[thread] = "exit"
  /\ cap /\ last_frame # 0


\* ==================================================== a RingBuffer in use
\* The items pushed, and the indices get() is asked for: below 0, inside the
\* largest buffer, at and past its capacity.
Items == 1..NumItems
GetIndices == (-2)..(MaxCap + 1)
\* Capacities asked of the constructor: not positive ones are refused.
Capacities == (-1)..MaxCap

\* RingBuffer(capacity): ValueError for capacity <= 0, else an empty buffer.
RbNew(capacity) ==
  /\ IF capacity <= 0
     THEN /\ UNCHANGED ringVars
          /\ Returns("rb_new", FALSE, NoneVal)
     ELSE /\ rb' = RingBufferInit(capacity)
          /\ pushed' = <<>> /\ cleared' = FALSE
          /\ Returns("rb_new", TRUE, NoneVal)
  /\ UNCHANGED <<ocvVars, pyavVars, hybridVars, asyncVars, coreVars>>

RbPush(item) ==
  /\ rb.capacity > 0
  /\ Len(pushed) < MaxPush
  /\ rb' = RingPush(rb, item)
  /\ pushed' = Append(pushed, item)
  /\ Returns("push", TRUE, NoneVal)
  /\ UNCHANGED <<cleared, ocvVars, pyavVars, hybridVars, asyncVars, coreVars>>

RbGet(frame_index) ==
  /\ rb.capacity > 0
  /\ Returns("get", RingGet(rb, frame_index) # NoneVal, RingGet(rb, frame_index))
  /\ UNCHANGED <<ringVars, ocvVars, pyavVars, hybridVars, asyncVars, coreVars>>

RbLast ==
  /\ rb.capacity > 0
  /\ Returns("last", RingLast(rb) # NoneVal, RingLast(rb))
  /\ UNCHANGED <<ringVars, ocvVars, pyavVars, hybridVars, asyncVars, coreVars>>

RbSize ==
  /\ rb.capacity > 0
  /\ Returns("size", TRUE, RingSize(rb))
  /\ UNCHANGED <<ringVars, ocvVars, pyavVars, hybridVars, asyncVars, coreVars>>

RbCapacity ==
  /\ rb.capacity > 0
  /\ Returns("capacity", TRUE, RingCapacity(rb))
  /\ UNCHANGED <<ringVars, ocvVars, pyavVars, hybridVars, asyncVars, coreVars>>

RbClear ==
  /\ rb.capacity > 0
  /\ rb' = RingClear(rb)
  /\ pushed' = <<>> /\ cleared' = TRUE
  /\ Returns("clear", TRUE, NoneVal)
  /\ UNCHANGED <<ocvVars, pyavVars, hybridVars, asyncVars, coreVars>>

New == \E capacity \in Capacities : RbNew(capacity)

Push == \E item \in Items : RbPush(item)

Get == \E frame_index \in GetIndices : RbGet(frame_index)

NextRing == New \/ Push \/ Get \/ RbLast \/ RbSize \/ RbCapacity \/ RbClear

SpecRing == Init /\ [][NextRing]_vars


\* ======================================================= RingBuffer: claims
\* Number of pushes since the buffer was constructed or cleared.
NPushed == Len(pushed)

\* C13: in every buffer of capacity C >= 1, after any pushes and clears,
\* 0 <= size() <= capacity() and size() = min(N, C) for the N pushes since the
\* buffer was empty; the storage keeps its C slots and the write cursor stays
\* inside them, so push cannot fail; capacity() changes in no operation.
C13_SizeBounded ==
  /\ [](rb.capacity >= 1 =>
          /\ 0 <= RingSize(rb) /\ RingSize(rb) <= RingCapacity(rb)
          /\ RingSize(rb) = Min(NPushed, RingCapacity(rb))
          /\ DOMAIN rb.data = 0..(rb.capacity - 1)
          /\ rb.end \in 0..(rb.capacity - 1))
  /\ [][(rb.capacity >= 1 /\ op' # "rb_new") =>
          RingCapacity(rb') = RingCapacity(rb)]_vars
  /\ [][\A item \in Items : RbPush(item) => DOMAIN rb'.data = DOMAIN rb.data]_vars

\* C13 witness: more pushes than the capacity, the last of them just done.
C13_Witness ==
  /\ op = "push" /\ rb.capacity >= 2
  /\ NPushed > rb.capacity /\ RingSize(rb) = rb.capacity

\* C14: after N pushes onto an empty buffer, get(i) for 0 <= i < size() is the
\* (N - size() + i)-th item pushed, counting from 0: the buffer holds the
\* min(N, C) latest items, oldest first.
C14_LogicalOrder ==
  /\ [](rb.capacity >= 1 =>
          \A i \in 0..(RingSize(rb) - 1) :
            RingGet(rb, i) = pushed[NPushed - RingSize(rb) + i + 1])
  /\ [][\A i \in GetIndices :
          (RbGet(i) /\ 0 <= i /\ i < RingSize(rb)) =>
            (retOk' /\ retVal' = pushed[NPushed - RingSize(rb) + i + 1])]_vars

\* C14 witness: get() has answered from a buffer that has wrapped around and
\* whose oldest and newest items differ.
C14_Witness ==
  /\ op = "get" /\ retOk /\ rb.capacity >= 2
  /\ NPushed > rb.capacity /\ rb.start # 0
  /\ RingGet(rb, 0) # RingGet(rb, RingSize(rb) - 1)

\* C15: get(i) for i < 0 or i >= size() returns None and leaves the buffer as
\* it is, whether the buffer is empty, partly filled, full, wrapped or cleared.
C15_GetOutOfRange ==
  [][\A i \in GetIndices :
       (RbGet(i) /\ (i < 0 \/ i >= RingSize(rb))) =>
         (retVal' = NoneVal /\ ~retOk' /\ rb' = rb)]_vars

\* C15 witness: get() has returned None from a cleared buffer that was filled
\* again past its capacity, so every slot holds an item.
C15_Witness ==
  /\ op = "get" /\ ~retOk /\ retVal = NoneVal
  /\ cleared /\ NPushed > rb.capacity /\ RingSize(rb) = rb.capacity

\* C16: last() is None on an empty buffer and else the item pushed last, the
\* same as get(size() - 1), after any pushes and clears.
C16_LastIsNewest ==
  /\ [](rb.capacity >= 1 =>
          IF RingSize(rb) = 0 THEN RingLast(rb) = NoneVal
          ELSE /\ RingLast(rb) = pushed[NPushed]
               /\ RingLast(rb) = RingGet(rb, RingSize(rb) - 1))
  /\ [][RbLast => retVal' = RingLast(rb)]_vars

\* C16 witness: last() has answered from a wrapped buffer whose newest item
\* differs from the one pushed before it.
C16_Witness ==
  /\ op = "last" /\ retOk /\ NPushed > rb.capacity
  /\ retVal = pushed[NPushed] /\ pushed[NPushed] # pushed[NPushed - 1]

\* The buffer a fresh RingBuffer(capacity) becomes under the pushes of s.
RECURSIVE Replay(_, _)
Replay(capacity, s) ==
  IF s = <<>> THEN RingBufferInit(capacity)
  ELSE RingPush(Replay(capacity, SubSeq(s, 1, Len(s) - 1)), s[Len(s)])

\* C17: clear() leaves the buffer empty with its capacity: size() is 0, get(i)
\* and last() are None; and after any pushes that follow, the buffer is the
\* one a freshly constructed buffer of that capacity is after the same pushes,
\* so size(), get(i) and last() answer alike.
C17_ClearIsFresh ==
  /\ [][RbClear =>
          /\ RingCapacity(rb') = RingCapacity(rb)
          /\ RingSize(rb') = 0 /\ RingLast(rb') = NoneVal
          /\ \A i \in GetIndices : RingGet(rb', i) = NoneVal]_vars
  /\ []((rb.capacity >= 1 /\ cleared) => rb = Replay(rb.capacity, pushed))

\* C17 witness: a buffer that had wrapped was cleared and has wrapped again.
C17_Witness ==
  /\ cleared /\ op = "push" /\ rb.capacity >= 2
  /\ NPushed > rb.capacity /\ rb.start # 0


\* ================================================ HybridDecoder.open: claims
\* C18: open() asks both backends, whatever the first answered, and returns
\* true exactly when at least one of them opened, false when both failed.
C18_OpenNeedsOneBackend ==
  [][op' = "open" =>
       /\ retOk' = (pyav_ok' \/ opencv_ok')
       /\ opencv_ok' = cap'
       /\ pyav_ok' => (container' /\ stream')]_vars

\* C18 witness: open() has returned true with PyAV opened and OpenCV not.
C18_Witness ==
  /\ op = "open" /\ retOk /\ pyav_ok /\ ~opencv_ok
  /\ container /\ stream /\ ~cap

\* C19: after a successful open(), fps (and likewise total_frames) is PyAV's
\* value when PyAV opened and knows a positive one, and is OpenCV's value when
\* PyAV did not open or knows none.
C19_MetadataResolution ==
  [][(op' = "open" /\ retOk') =>
       /\ HybridGetFpsRet' =
            (IF pyav_ok' /\ pyav_fps' # NoneVal /\ pyav_fps' > 0
             THEN pyav_fps' ELSE OpenCVGetFps')
       /\ HybridGetTotalFramesRet' =
            (IF pyav_ok' /\ pyav_total' # NoneVal /\ pyav_total' > 0
             THEN pyav_total' ELSE OpenCVGetTotalFrames')]_vars


\* The last open() opened OpenCV and not PyAV, and close() has not been
\* called since.
FastOnly == session = "OPENCV"

\* C20: when PyAV fails to open and OpenCV opens, open() returns true and the
\* metadata is OpenCV's; for the rest of the session no seek is accepted by
\* PyAV, a seek returns true exactly when OpenCV accepts it, and the
\* authority never becomes PYAV.
C20_FastOnlySession ==
  [][/\ (op' = "open" /\ ~pyav_ok' /\ opencv_ok') =>
          /\ retOk' = TRUE
          /\ HybridGetFpsRet' = OpenCVGetFps'
          /\ HybridGetTotalFramesRet' = OpenCVGetTotalFrames'
     /\ (FastOnly /\ op' = "seek") =>
          /\ ~pyav_ok'
          /\ retOk' = opencv_ok'
     /\ (FastOnly /\ FastOnly' /\ last_seek_by # "PYAV") =>
          last_seek_by' # "PYAV"]_vars


\* =============================================== HybridDecoder.read: claims
\* C21: read() returns what OpenCV's read() returns, the frame under cv2's
\* cursor or None at the end of the stream or without a capture, and leaves
\* every field of the PyAV decoder and the authority as they were, whichever
\* backend holds the authority.
C21_ReadDelegatesToFast ==
  [][op' = "read" =>
       /\ retOk' = (cap /\ capPos' = capPos + 1)
       /\ retVal' = (IF retOk' THEN capPos ELSE NoneVal)
       /\ (~retOk' => UNCHANGED ocvVars)
       /\ UNCHANGED pyavVars
       /\ last_seek_by' = last_seek_by]_vars

\* C21 witness: read() has delivered a frame with PyAV open and in authority.
C21_Witness ==
  /\ op = "read" /\ retOk /\ last_seek_by = "PYAV"
  /\ container /\ stream /\ frame_iter # NoneVal


\* ============================================== HybridDecoder.close: claims
\* C22: close() closes PyAV in every case, also when OpenCV's close raised:
\* after it PyAV holds no container, stream or iterator and counts from 0.
C22_CloseReleasesTimeline ==
  [][op' = "close" =>
       /\ ~container' /\ ~stream' /\ frame_iter' = NoneVal
       /\ PyAVCurFrameId' = 0]_vars

\* C22 witness: OpenCV's close has raised (the capture is still held) in a
\* close() of a decoder whose PyAV side had been opened and is now released.
C22_Witness ==
  /\ op = "close" /\ retVal = RaisesVal /\ cap
  /\ pyav_fps # NoneVal /\ ~container /\ ~stream


\* ======================================= HybridDecoder.cur_frame_id: claims
\* open() has succeeded, close() has not been called since, and no seek() of
\* this session has returned True.
SessionWithoutSeek == session \in {"BOTH", "PYAV", "OPENCV"} /\ ~sought

\* C27: in every session, the one after a close() and a new open() included,
\* while no seek of the session has succeeded cur_frame_id() returns OpenCV's
\* cur_frame_id() when that is not negative, and PyAV's otherwise.
C27_NoSeekPrefersFast ==
  [][(SessionWithoutSeek /\ op' = "cur_frame_id") =>
       retVal' = (IF OpenCVCurFrameIdRet >= 0 THEN OpenCVCurFrameIdRet
                  ELSE PyAVCurFrameId)]_vars


\* ================================================= the decoders on their own
\* DecoderFactory builds one of the three decoders; a caller drives the one
\* it got.  The calls of a stand-alone backend are named after it, so the
\* last call tells which decoder the run is about.
HybridOps ==
  {"open", "close", "get_fps", "get_total_frames", "seek", "cur_frame_id", "read"}
OpenCVOps ==
  {"ocv_open", "ocv_close", "ocv_seek", "ocv_cur_frame_id", "ocv_read"}
PyAVOps ==
  {"pyav_open", "pyav_close", "pyav_seek", "pyav_cur_frame_id", "pyav_read"}

IsHybrid == op \in {"init"} \cup HybridOps
IsOpenCV == op \in {"init"} \cup OpenCVOps
IsPyAV == op \in {"init"} \cup PyAVOps

\* What next(self._frame_iter) may do: yield a frame (or stop at the end of
\* the stream), or raise a decoding error.
DecodeOutcomes == {"frame", "error"}

\* PyAVDecoder.read(): None without an iterator or at StopIteration; any other
\* exception of next() leaves read(), and the generator is finished by it.
PyAVReadRaises(outcome) ==
  frame_iter # NoneVal /\ frame_iter < NumFrames /\ outcome = "error"

PyAVReadOk(outcome) ==
  frame_iter # NoneVal /\ frame_iter < NumFrames /\ outcome = "frame"

PyAVReadFrame(outcome) ==
  IF PyAVReadOk(outcome) THEN frame_iter
  ELSE IF PyAVReadRaises(outcome) THEN RaisesVal ELSE NoneVal

\* Mutant of PyAVRead: every exception of next() is taken as the end.
PyAVRead_CatchesAll(outcome) ==
  IF PyAVReadOk(outcome)
  THEN /\ frame_iter' = frame_iter + 1
       /\ pyav_cur' = pyav_cur + 1
       /\ UNCHANGED <<container, stream, streamRate, streamFrames, pyav_fps, pyav_total>>
  ELSE UNCHANGED pyavVars

PyAVRead(outcome) ==
  IF PyAVReadOk(outcome)
  THEN /\ frame_iter' = frame_iter + 1
       /\ pyav_cur' = pyav_cur + 1
       /\ UNCHANGED <<container, stream, streamRate, streamFrames, pyav_fps, pyav_total>>
  ELSE IF PyAVReadRaises(outcome)
  THEN /\ frame_iter' = NumFrames
       /\ UNCHANGED <<container, stream, streamRate, streamFrames,
                      pyav_fps, pyav_total, pyav_cur>>
  ELSE UNCHANGED pyavVars

\* ------------------------------------------- an OpenCVDecoder and its caller
OcvOpen ==
  /\ IsOpenCV
  /\ \E c \in OpenCVOpenings :
       /\ OpenCVOpen(c[1], c[2], c[3])
       /\ Returns("ocv_open", c[1], NoneVal)
  /\ UNCHANGED <<pyavVars, hybridVars, asyncVars, ringVars, coreVars>>

OcvClose ==
  /\ IsOpenCV
  /\ \E releaseRaises \in BOOLEAN :
       /\ ~cap => ~releaseRaises
       /\ OpenCVClose(releaseRaises)
       /\ Returns("ocv_close", FALSE,
                  IF OpenCVCloseRaises(releaseRaises) THEN RaisesVal ELSE NoneVal)
  /\ UNCHANGED <<pyavVars, hybridVars, asyncVars, ringVars, coreVars>>

OcvSeek ==
  /\ IsOpenCV
  /\ \E k \in SeekTargets :
       \E p \in Landings(OpenCVSeekTarget(k)) :
         \E r \in PosReports(p) :
           /\ ~cap => (p = capPos /\ r = capPosFrames)
           /\ OpenCVSeek(p, r)
           /\ Returns("ocv_seek", OpenCVSeekOk(k, r), NoneVal)
  /\ UNCHANGED <<pyavVars, hybridVars, asyncVars, ringVars, coreVars>>

OcvCurFrameId ==
  /\ IsOpenCV
  /\ OpenCVCurFrameId
  /\ Returns("ocv_cur_frame_id", FALSE, OpenCVCurFrameIdRet)
  /\ UNCHANGED <<pyavVars, hybridVars, asyncVars, ringVars, coreVars>>

OcvRead ==
  /\ IsOpenCV
  /\ \E success \in BOOLEAN :
       \E r \in ReadReports(capPos + 1) :
         /\ OpenCVRead(success, r)
         /\ Returns("ocv_read", OpenCVReadOk(success), OpenCVReadFrame(success))
  /\ UNCHANGED <<pyavVars, hybridVars, asyncVars, ringVars, coreVars>>

\* --------------------------------------------- a PyAVDecoder and its caller
PavOpen ==
  /\ IsPyAV
  /\ \E a \in PyAVOpenings :
       /\ PyAVOpen(a[1], a[2], a[3], a[4])
       /\ Returns("pyav_open", PyAVOpenOk(a[1], a[2]), NoneVal)
  /\ UNCHANGED <<ocvVars, hybridVars, asyncVars, ringVars, coreVars>>

PavClose ==
  /\ IsPyAV
  /\ PyAVClose
  /\ Returns("pyav_close", FALSE, NoneVal)
  /\ UNCHANGED <<ocvVars, hybridVars, asyncVars, ringVars, coreVars>>

PavSeek ==
  /\ IsPyAV
  /\ \E k \in SeekTargets, seekRaises \in BOOLEAN :
       /\ ~(container /\ stream /\ PyAVHasPts) => ~seekRaises
       /\ PyAVSeek(k, seekRaises)
       /\ Returns("pyav_seek", PyAVSeekOk(seekRaises), NoneVal)
  /\ UNCHANGED <<ocvVars, hybridVars, asyncVars, ringVars, coreVars>>

PavCurFrameId ==
  /\ IsPyAV
  /\ Returns("pyav_cur_frame_id", FALSE, PyAVCurFrameId)
  /\ UNCHANGED <<ocvVars, pyavVars, hybridVars, asyncVars, ringVars, coreVars>>

PavRead ==
  /\ IsPyAV
  /\ \E outcome \in DecodeOutcomes :
       /\ PyAVReadOk(outcome) => pyav_cur < MaxCur
       /\ PyAVRead(outcome)
       /\ Returns("pyav_read", PyAVReadOk(outcome), PyAVReadFrame(outcome))
  /\ UNCHANGED <<ocvVars, hybridVars, asyncVars, ringVars, coreVars>>

\* A HybridDecoder and its caller, as in Spec.
HybridStep == IsHybrid /\ Next

NextDecoders ==
  \/ HybridStep
  \/ OcvOpen \/ OcvClose \/ OcvSeek \/ OcvCurFrameId \/ OcvRead
  \/ PavOpen \/ PavClose \/ PavSeek \/ PavCurFrameId \/ PavRead

SpecDecoders == Init /\ [][NextDecoders]_vars


\* --------------------------------------------------------------------- C23
OcvClosed == ~cap /\ ocv_cur = 0
PavClosed == ~container /\ ~stream /\ frame_iter = NoneVal /\ pyav_cur = 0
HybridClosed == OcvClosed /\ PavClosed

ClosedStays(closed, closedNext, closeOp, curOp, readOp, seekOp, unchanged) ==
  /\ (op' = closeOp /\ retVal' # RaisesVal) => closedNext
  /\ (closed /\ op' = closeOp) => (unchanged /\ retVal' # RaisesVal)
  /\ (closed /\ op' = curOp) => (retVal' = 0 /\ closedNext)
  /\ (closed /\ op' = readOp) => (~retOk' /\ retVal' = NoneVal /\ closedNext)
  /\ (closed /\ op' = seekOp) => (~retOk' /\ closedNext)

CurFrameIdInRange(total) ==
  /\ retVal' >= 0
  /\ (total # NoneVal /\ total > 0) => retVal' <= total - 1

\* C24: whatever cur_frame_id() returns, for each of the three decoders, is a
\* valid zero-based index: at least 0 and, when the total number of frames is
\* known, at most total - 1.
C24_CurFrameIdInRange ==
  [][/\ op' = "ocv_cur_frame_id" => CurFrameIdInRange(ocv_total')
     /\ op' = "pyav_cur_frame_id" => CurFrameIdInRange(pyav_total')
     /\ op' = "cur_frame_id" => CurFrameIdInRange(HybridGetTotalFramesRet')]_vars

\* --------------------------------------------------------------------- C25
\* C25: a seek() of a backend decoder that returns False leaves the decoder's
\* position as it was: the position cur_frame_id() reports and the frame the
\* next read() delivers.
C25_FailedSeekKeepsPosition ==
  [][/\ (op' = "ocv_seek" /\ ~retOk') =>
          (capPos' = capPos /\ OpenCVCurFrameIdRet' = OpenCVCurFrameIdRet)
     /\ (op' = "pyav_seek" /\ ~retOk') =>
          (frame_iter' = frame_iter /\ PyAVCurFrameId' = PyAVCurFrameId)]_vars

\* --------------------------------------------------------------------- C26
ContractOps ==
  {"open", "seek", "read", "cur_frame_id",
   "ocv_open", "ocv_seek", "ocv_read", "ocv_cur_frame_id",
   "pyav_open", "pyav_seek", "pyav_read", "pyav_cur_frame_id"}

\* C26: open(), seek(), read() and cur_frame_id() of every decoder return to
\* the caller; none of them leaves by an exception.
C26_NoOperationRaises ==
  [][op' \in ContractOps => retVal' # RaisesVal]_vars


\* ============================================== VideoCore without a reader
MaxDelay == 1
BufferSizes == 0..MaxCap
PollDelays == 0..MaxDelay

\* Mutant of VcGetFrame: whatever read() returned is pushed, None included.
VcGetFrame_PushesEmpty(success, r) ==
  /\ callerPc = "idle"
  /\ Len(pushed) < MaxPush
  /\ OpenCVRead(success, r)
  /\ Returns("get_frame", OpenCVReadOk(success), OpenCVReadFrame(success))
  /\ IF rb.capacity > 0
     THEN /\ rb' = RingPush(rb, OpenCVReadFrame(success))
          /\ pushed' = Append(pushed, OpenCVReadFrame(success))
          /\ UNCHANGED cleared
     ELSE UNCHANGED ringVars
  /\ UNCHANGED <<pyavVars, hybridVars, asyncVars, coreVars>>

\* VideoCore.get_frame(): decoder.read(); a frame is pushed into the buffer
\* when there is one; what read() returned is returned.
VcGetFrame(success, r) ==
  /\ callerPc = "idle"
  /\ OpenCVReadOk(success) => Len(pushed) < MaxPush
  /\ OpenCVRead(success, r)
  /\ Returns("get_frame", OpenCVReadOk(success), OpenCVReadFrame(success))
  /\ IF OpenCVReadOk(success) /\ rb.capacity > 0
     THEN /\ rb' = RingPush(rb, OpenCVReadFrame(success))
          /\ pushed' = Append(pushed, OpenCVReadFrame(success))
          /\ UNCHANGED cleared
     ELSE UNCHANGED ringVars
  /\ UNCHANGED <<pyavVars, hybridVars, asyncVars, coreVars>>

\* VideoCore.get_last_buffered(): buffer.last(), None without a buffer.
VcGetLastBufferedRet == IF rb.capacity > 0 THEN RingLast(rb) ELSE NoneVal

VcGetLastBuffered ==
  /\ callerPc = "idle"
  /\ Returns("get_last_buffered", VcGetLastBufferedRet # NoneVal, VcGetLastBufferedRet)
  /\ UNCHANGED <<ocvVars, pyavVars, hybridVars, asyncVars, ringVars, coreVars>>

\* VideoCore.get_buffer_frame(i): buffer.get(i), None without a buffer.
VcGetBufferFrameRet(frame_index) ==
  IF rb.capacity > 0 THEN RingGet(rb, frame_index) ELSE NoneVal

VcGetBufferFrame(frame_index) ==
  /\ callerPc = "idle"
  /\ Returns("get_buffer_frame", VcGetBufferFrameRet(frame_index) # NoneVal,
             VcGetBufferFrameRet(frame_index))
  /\ UNCHANGED <<ocvVars, pyavVars, hybridVars, asyncVars, ringVars, coreVars>>

\* VideoCore.go_to_frame(k): decoder.seek(k).
VcGoToFrame(k, p, r) ==
  /\ callerPc = "idle"
  /\ ~cap => (p = capPos /\ r = capPosFrames)
  /\ OpenCVSeek(p, r)
  /\ Returns("go_to_frame", OpenCVSeekOk(k, r), NoneVal)
  /\ UNCHANGED <<pyavVars, hybridVars, asyncVars, ringVars, coreVars>>

\* VideoCore.get_decoder_frame_id(): decoder.cur_frame_id().
VcGetDecoderFrameId ==
  /\ callerPc = "idle"
  /\ OpenCVCurFrameId
  /\ Returns("get_decoder_frame_id", FALSE, OpenCVCurFrameIdRet)
  /\ UNCHANGED <<pyavVars, hybridVars, asyncVars, ringVars, coreVars>>

GetFrame ==
  \E success \in BOOLEAN : \E r \in ReadReports(capPos + 1) : VcGetFrame(success, r)

GetBufferFrame == \E frame_index \in GetIndices : VcGetBufferFrame(frame_index)

GoToFrame ==
  \E k \in SeekTargets :
    \E p \in Landings(OpenCVSeekTarget(k)) :
      \E r \in PosReports(p) : VcGoToFrame(k, p, r)

\* A VideoCore built with any configuration; its caller reads frame by frame.
InitCore ==
  /\ DecodersInit
  /\ \E buffer_size \in BufferSizes, async_enabled \in BOOLEAN,
        cfg_poll_delay \in PollDelays :
       VideoCoreInit(buffer_size, async_enabled, cfg_poll_delay)

NextCore ==
  \/ VcOpen \/ GetFrame \/ VcGetLastBuffered \/ GetBufferFrame
  \/ VcCloseBegin \/ AsyncStopJoin \/ VcCloseDecoder

SpecCore == InitCore /\ [][NextCore]_vars


\* --------------------------------------------------------------------- C28
BufferEnabled == config.buffer_size > 0
LastPushed == IF pushed = <<>> THEN NoneVal ELSE pushed[Len(pushed)]

\* C28: get_frame() returns what the decoder's read() delivered: the frame at
\* the capture's position if the capture advanced, else nothing.  With
\* buffer_size > 0 a returned frame is pushed into the buffer exactly once (so
\* `pushed` is the frames get_frame() returned, in order) and an empty read
\* leaves the buffer as it is; get_last_buffered() returns the last frame
\* get_frame() returned.  With buffer_size = 0 nothing is ever buffered, and
\* get_last_buffered() and get_buffer_frame(i) return nothing.
C28_GetFramePushes ==
  [][/\ op' = "get_frame" =>
          /\ retVal' = (IF cap /\ capPos' = capPos + 1 THEN capPos ELSE NoneVal)
          /\ (BufferEnabled /\ retVal' # NoneVal) =>
               (rb' = RingPush(rb, retVal') /\ pushed' = Append(pushed, retVal'))
          /\ (~BufferEnabled \/ retVal' = NoneVal) => (rb' = rb /\ pushed' = pushed)
     /\ op' = "get_last_buffered" =>
          retVal' = (IF BufferEnabled THEN LastPushed ELSE NoneVal)
     /\ (op' = "get_buffer_frame" /\ ~BufferEnabled) => retVal' = NoneVal]_vars

\* The buffer has wrapped and its newest frame is asked for.
C28_Witness ==
  /\ op = "get_last_buffered" /\ retVal # NoneVal
  /\ BufferEnabled /\ Len(pushed) > rb.capacity

\* --------------------------------------------------------------------- C29
\* C29: with async_enabled set, the delay of the reader VideoCore built is the
\* configuration's poll_delay.
C29_ReaderUsesConfiguredDelay ==
  config.async_enabled => poll_delay = config.poll_delay

\* ================================== VideoCore: the reader and direct calls
\* The caller of a VideoCore whose reader may be running also uses the
\* decoder directly.
NextDirect ==
  \/ NextAsync
  \/ GetFrame \/ GoToFrame \/ VcGetDecoderFrameId

SpecDirect == Init /\ [][NextDirect]_vars

\* --------------------------------------------------------------------- C30
DirectCall == GetFrame \/ GoToFrame \/ VcGetDecoderFrameId

\* C30: no get_frame(), go_to_frame() or get_decoder_frame_id() of the caller
\* runs its decoder operation while a background thread is inside the
\* decoder's read().
C30_ReaderIsSoleAccessor ==
  [][DirectCall => ~\E t \in Tasks : InRead(t)]_vars


\* --------------------------------------------------------------------- C31
\* stop() (directly or through VideoCore.close()) has cleared the flag and
\* start() has not been called since.
StopRequested == op \in {"stop_async", "close"} /\ ~running

BeginsRead(t) == pc[t] = "call" /\ pc'[t] # "call"

\* C31 as stated: once stop() has cleared the flag, and until start() is
\* called again, no background thread begins a decoder.read().
C31_NoReadBeginsAfterStop ==
  [][StopRequested => \A t \in Tasks : ~BeginsRead(t)]_vars

\* C31 as amended: a thread enters decoder.read() only from the flag test of
\* the same iteration, and passes that test only while the flag is set; so
\* once stop() has cleared the flag, and until start() is called again, a
\* thread that is not already past the test of its iteration (about to call
\* decoder.read() or inside it) never gets to a decoder.read() again.
C31_CooperativeCancellation ==
  [][\A t \in Tasks :
       /\ BeginsRead(t) => pc'[t] \in {"reading", "got"}
       /\ (pc'[t] = "reading" /\ pc[t] # "reading") => pc[t] = "call"
       /\ (pc'[t] = "call" /\ pc[t] # "call") => (pc[t] = "check" /\ running)
       /\ (StopRequested /\ pc[t] \notin {"call", "reading"}) =>
            pc'[t] \notin {"call", "reading"}]_vars

\* stop() has cleared the flag while a thread is inside decoder.read(): the
\* call is not interrupted.
C31_Witness ==
  /\ StopRequested /\ callerPc = "stop_join"
  /\ \E t \in Tasks : InRead(t)


\* --------------------------------------------------------------------- C32
\* cap.get(CAP_PROP_POS_FRAMES) gives no usable position: no capture, an
\* exception, or a value that is 0 or negative.
NoValidPosition == ~cap \/ capPosFrames = RaisesVal \/ capPosFrames <= 0

\* C32: OpenCVDecoder.cur_frame_id() returns the tracked _current_frame_id and
\* leaves it as it was when there is no valid position to take from cv2;
\* otherwise it returns the reported position and stores it in the counter.
C32_CurFrameIdFallsBack ==
  [][op' = "ocv_cur_frame_id" =>
       IF NoValidPosition
       THEN retVal' = ocv_cur /\ ocv_cur' = ocv_cur
       ELSE retVal' = capPosFrames /\ ocv_cur' = capPosFrames]_vars


\* --------------------------------------------------------------------- C33
\* C33: right after a seek(k) that PyAV accepted, cur_frame_id() is k clamped
\* by the decoder's total_frames (into [0, total_frames - 1] when it is known,
\* to max(0, k) otherwise), wherever OpenCV's cursor went.
C33_SeekRoundTrip ==
  [][\A k \in SeekTargets, seekRaises \in BOOLEAN, p \in 0..NumFrames :
       \A r \in PosReports(p) :
         (HybridSeek(k, seekRaises, p, r) /\ pyav_ok') =>
           HybridCurFrameIdRet' = clamp_frame_index(k, HybridGetTotalFramesRet)]_vars


\* --------------------------------------------------------------------- C34
\* The session was opened with PyAV only, and the step does not end it.
TimelineOnly == session = "PYAV" /\ session' = "PYAV"

\* C34: in a session that open() started with PyAV alone, every read() returns
\* nothing, seek() succeeds exactly when PyAV accepts it and then gives PyAV
\* the authority, and cur_frame_id() returns PyAV's position.
C34_TimelineOnlySession ==
  [][TimelineOnly =>
       /\ op' = "read" => (~retOk' /\ retVal' = NoneVal)
       /\ op' = "seek" => (retOk' = pyav_ok' /\ (retOk' => last_seek_by' = "PYAV"))
       /\ op' = "cur_frame_id" => retVal' = PyAVCurFrameId]_vars


=============================================================================
